---------------------------- MODULE Spec2Model ----------------------------
(***************************************************************************)
(* Model of pycdt/core/chemical_potentials.py: the facet partitioner       *)
(* (ChemPotAnalyzer.diff_bulk_sub_phases), the facet solve                 *)
(* (ChemPotAnalyzer.get_chempots_from_pd), the remote-sourced analysis     *)
(* (MPChemPotAnalyzer.get_mp_entries / analyze_GGA_chempots), which may be *)
(* called a second time on the same analyzer, and the opening of the       *)
(* locally-sourced analysis (UserChemPotAnalyzer                           *)
(* .read_phase_diagram_and_chempots, up to the bulk entry it needs).       *)
(*                                                                         *)
(* Python strings are sequences of one-character strings, compared by code *)
(* point as Python compares them.  Energies are integers (one unit is      *)
(* 0.00004 eV); a composition is a function from element symbols to atom   *)
(* counts.  The phase-diagram library (pymatgen PhaseDiagram) and the      *)
(* Materials Project database are collaborators: the database is a small   *)
(* fixed universe of entries whose content and answer order are chosen in  *)
(* Init, and the phase diagram is the lower convex hull of the entries it  *)
(* is given, computed by exhaustive search over integer chemical           *)
(* potentials.                                                             *)
(***************************************************************************)
EXTENDS Integers, Sequences, FiniteSets, TLC

VARIABLES
    \* ---- the partitioner on its own (specification PartSpec) ----
    face_list,      \* argument face_list of diff_bulk_sub_phases
    sub_el_arg,     \* argument sub_el (the empty string stands for None)
    part_out,       \* <<the returned (blk, blknom, subnom)>>, or <<>> before the call
    part_first,     \* <<the first call for this facet: its list and its result>>, or <<>>
    \* ---- the analyzer object and one analyze_GGA_chempots call ----
    pc,             \* position inside the running method
    db_has_CaO,     \* whether the database knows a CaO entry
    db_rev,         \* the order in which the database answers
    db_empty,       \* whether every retrieval of entries comes back empty
    bulk_ce,        \* self.bulk_ce
    mpid,           \* self.mpid
    sub_species,    \* self.sub_species, in iteration order
    full_sub_approach,
    bulk_derived,   \* self.entries['bulk_derived'], the same list object as entry_list
    subs_set,       \* self.entries['subs_set']
    bulk_species_symbol,
    redcomp,
    decomp_en,      \* round(e_above_hull, 4), in units of 0.0001 eV/atom
    stable_composition_exists,
    status,         \* which branch of the stability classification ran
    chem_lims,
    finchem_lims,
    sub_idx,        \* position of the for loop over self.sub_species
    key_idx,        \* position of the for loop over chem_lims.keys()
    overdependent_chempot,
    result,         \* the returned table, or NoResult
    \* ---- history (not program state) ----
    bulk_table,     \* finchem_lims as built from the bulk-only solve
    solve_log,      \* the entry lists handed to the facet solve, with its answers
    calls,          \* how many times the analysis was called on this analyzer
    first_call      \* <<what the first call used and returned>>, or <<>>

pvars == <<face_list, sub_el_arg, part_out, part_first>>
avars == <<pc, db_has_CaO, db_rev, bulk_ce, mpid, sub_species, full_sub_approach,
           bulk_derived, subs_set, bulk_species_symbol, redcomp, decomp_en,
           stable_composition_exists, status, chem_lims, finchem_lims, sub_idx,
           key_idx, overdependent_chempot, result, bulk_table, solve_log,
           db_empty, calls, first_call>>
vars == <<pvars, avars>>

NoResult == "none"

(***************************************************************************)
(* Bounds of the model.                                                    *)
(***************************************************************************)
MaxFaces == 3      \* longest facet handed to the partitioner in PartSpec
MaxMu == 5         \* chemical potentials are searched in -MaxMu..0
MaxLam == 2        \* weights of the in-simplex test are searched in 0..MaxLam

(***************************************************************************)
(* Python strings.                                                         *)
(***************************************************************************)
CodePoint(c) ==
    CASE c = "-" -> 45
      [] c = "2" -> 50
      [] c = "C" -> 67
      [] c = "O" -> 79
      [] c = "S" -> 83
      [] c = "a" -> 97

Dash == "-"

\* a < b for Python str: code point by code point, a proper prefix is smaller
RECURSIVE StrLess(_, _)
StrLess(a, b) ==
    IF Len(b) = 0 THEN FALSE
    ELSE IF Len(a) = 0 THEN TRUE
    ELSE IF CodePoint(Head(a)) < CodePoint(Head(b)) THEN TRUE
    ELSE IF CodePoint(Head(a)) > CodePoint(Head(b)) THEN FALSE
    ELSE StrLess(Tail(a), Tail(b))

\* needle in hay, for Python str: substring containment
StrContains(needle, hay) ==
    \E i \in 1..(Len(hay) - Len(needle) + 1) :
        SubSeq(hay, i, i + Len(needle) - 1) = needle

\* sep.join(parts)
RECURSIVE StrJoin(_)
StrJoin(parts) ==
    IF Len(parts) = 0 THEN <<>>
    ELSE IF Len(parts) = 1 THEN parts[1]
    ELSE parts[1] \o <<Dash>> \o StrJoin(Tail(parts))

\* s.split('-'): always at least one piece
RECURSIVE StrSplitFrom(_, _)
StrSplitFrom(s, piece) ==
    IF Len(s) = 0 THEN <<piece>>
    ELSE IF Head(s) = Dash THEN <<piece>> \o StrSplitFrom(Tail(s), <<>>)
    ELSE StrSplitFrom(Tail(s), Append(piece, Head(s)))

StrSplit(s) == StrSplitFrom(s, <<>>)

\* list.sort() on a list of str
RECURSIVE InsertSorted(_, _)
InsertSorted(x, s) ==
    IF Len(s) = 0 THEN <<x>>
    ELSE IF StrLess(x, Head(s)) THEN <<x>> \o s
    ELSE <<Head(s)>> \o InsertSorted(x, Tail(s))

RECURSIVE SortedCopy(_)
SortedCopy(s) ==
    IF Len(s) = 0 THEN <<>>
    ELSE InsertSorted(s[Len(s)], SortedCopy(SubSeq(s, 1, Len(s) - 1)))

UnsortedCopy(s) == s

ListSort(s) == SortedCopy(s)

(***************************************************************************)
(* ChemPotAnalyzer.diff_bulk_sub_phases                                    *)
(***************************************************************************)
\* the test of lines 67-68 that sends a face to sub_spcs
GoesToSub(face, sub_el) == Len(sub_el) > 0 /\ StrContains(sub_el, face)

diff_bulk_sub_phases(faces, sub_el) ==
    LET InSub(face) == GoesToSub(face, sub_el)
        InBlk(face) == ~GoesToSub(face, sub_el)
        blk == ListSort(SelectSeq(faces, InBlk))
        sub_spcs == ListSort(SelectSeq(faces, InSub))
    IN  [blk |-> blk, blknom |-> StrJoin(blk), subnom |-> StrJoin(sub_spcs)]


(***************************************************************************)
(* Elements, compositions and entries.                                     *)
(***************************************************************************)
Elements == {"Ca", "O", "C", "S"}

\* Element.symbol as a Python str
SymChars(el) ==
    CASE el = "Ca" -> <<"C", "a">>
      [] el = "O" -> <<"O">>
      [] el = "C" -> <<"C">>
      [] el = "S" -> <<"S">>

Comp(ca, o, c, s) == ("Ca" :> ca) @@ ("O" :> o) @@ ("C" :> c) @@ ("S" :> s)

Entry(id, name, comp, energy) ==
    [id |-> id, name |-> name, comp |-> comp, energy |-> energy]

NoEntry == [id |-> "None", name |-> <<>>, comp |-> Comp(0, 0, 0, 0), energy |-> 0]

\* composition.elements
EntryElements(e) == {el \in Elements : e.comp[el] > 0}

\* [s.symbol for s in composition.elements], in the fixed order of the periodic listing used here
ElementOrder == <<"Ca", "O", "C", "S">>

SymbolList(els) == SelectSeq(ElementOrder, LAMBDA el : el \in els)

SeqToSet(s) == {s[i] : i \in 1..Len(s)}

RECURSIVE Reverse(_)
Reverse(s) == IF Len(s) = 0 THEN <<>> ELSE Append(Reverse(Tail(s)), Head(s))

(***************************************************************************)
(* The Materials Project database (MPRester), a collaborator.              *)
(***************************************************************************)
mpCa == Entry("mp-Ca", <<"C", "a">>, Comp(1, 0, 0, 0), 0)
mpO2 == Entry("mp-O2", <<"O", "2">>, Comp(0, 2, 0, 0), 0)
mpCaO == Entry("mp-CaO", <<"C", "a", "O">>, Comp(1, 1, 0, 0), -4)
mpC == Entry("mp-C", <<"C">>, Comp(0, 0, 1, 0), 0)
mpS == Entry("mp-S", <<"S">>, Comp(0, 0, 0, 1), 0)
mpCaS == Entry("mp-CaS", <<"C", "a", "S">>, Comp(1, 0, 0, 1), -1)
mpSO2 == Entry("mp-SO2", <<"S", "O", "2">>, Comp(0, 2, 0, 1), -2)

DBUniverse == <<mpCa, mpO2, mpCaO, mpC, mpS, mpCaS, mpSO2>>

DBContent(hasCaO, rev) ==
    LET known == SelectSeq(DBUniverse, LAMBDA e : hasCaO \/ e.id # "mp-CaO")
    IN  IF db_empty THEN <<>> ELSE IF rev THEN Reverse(known) ELSE known

\* mp.get_entries_in_chemsys(els): every entry whose elements all lie in els
get_entries_in_chemsys(els, hasCaO, rev) ==
    SelectSeq(DBContent(hasCaO, rev), LAMBDA e : EntryElements(e) \subseteq els)

\* mp.get_entry_by_material_id(mpid)
get_entry_by_material_id(id) ==
    LET i == CHOOSE i \in 1..Len(DBUniverse) : DBUniverse[i].id = id
    IN  DBUniverse[i]

\* the caller's own computed entries for the bulk
UserCaO(energy) == Entry("user-CaO", <<"C", "a", "O">>, Comp(1, 1, 0, 0), energy)
UserCa(energy) == Entry("user-Ca", <<"C", "a">>, Comp(1, 0, 0, 0), energy)
BulkChoices == {UserCaO(e) : e \in {-5, -4, -3, 3}} \cup {UserCa(e) : e \in {0, 2}}

(***************************************************************************)
(* pymatgen PhaseDiagram, a collaborator: the lower convex hull.           *)
(***************************************************************************)
\* the chemical system of an entry list
PDElements(es) == UNION {EntryElements(es[i]) : i \in 1..Len(es)}

\* sum over the elements of n(e) * mu(e)
Dot(comp, mu, els) ==
    (IF "Ca" \in els THEN comp["Ca"] * mu["Ca"] ELSE 0)
    + (IF "O" \in els THEN comp["O"] * mu["O"] ELSE 0)
    + (IF "C" \in els THEN comp["C"] * mu["C"] ELSE 0)
    + (IF "S" \in els THEN comp["S"] * mu["S"] ELSE 0)

\* qhull_entries: per composition the entry of lowest energy (the first of equals)
QhullIdx(es) ==
    {i \in 1..Len(es) :
        \A j \in 1..Len(es) :
            es[j].comp = es[i].comp =>
                \/ es[j].energy > es[i].energy
                \/ (es[j].energy = es[i].energy /\ j >= i)}

MuSpace(els) == [els -> (0 - MaxMu)..0]

\* the hyperplanes no entry lies below
SupportingPlanes(es) ==
    LET els == PDElements(es)
        Q == QhullIdx(es)
    IN  {mu \in MuSpace(els) : \A i \in Q : Dot(es[i].comp, mu, els) <= es[i].energy}

OnPlane(es, mu) ==
    {i \in QhullIdx(es) : Dot(es[i].comp, mu, PDElements(es)) = es[i].energy}

\* _get_facet_chempots: the square system of a facet has exactly one solution
FacetDetermines(es, F, mu) ==
    LET els == PDElements(es)
    IN  \A m2 \in MuSpace(els) :
            (\A i \in F : Dot(es[i].comp, m2, els) = es[i].energy) => m2 = mu

\* pd.facets with the chemical potentials of each
PDFacets(es) ==
    LET els == PDElements(es)
        planes == {mu \in SupportingPlanes(es) :
                      /\ Cardinality(OnPlane(es, mu)) = Cardinality(els)
                      /\ FacetDetermines(es, OnPlane(es, mu), mu)}
    IN  {[idx |-> OnPlane(es, mu), mu |-> mu] : mu \in planes}

RECURSIVE WeightedComp(_, _, _, _)
WeightedComp(es, F, lam, el) ==
    IF F = {} THEN 0
    ELSE LET i == CHOOSE i \in F : TRUE
         IN  lam[i] * es[i].comp[el] + WeightedComp(es, F \ {i}, lam, el)

\* simplex.in_simplex(pd_coords(comp)): comp is a non-negative mix of the facet's phases
InSimplex(es, F, comp) ==
    \E lam \in [F -> 0..MaxLam] : \E m \in 1..MaxLam :
        \A el \in Elements : WeightedComp(es, F, lam, el) = m * comp[el]

\* a set of list positions in ascending order
RECURSIVE IdxSeq(_)
IdxSeq(F) ==
    IF F = {} THEN <<>>
    ELSE LET lo == CHOOSE i \in F : \A j \in F : i <= j
         IN  <<lo>> \o IdxSeq(F \ {lo})

RECURSIVE IntSeqLess(_, _)
IntSeqLess(a, b) ==
    IF Len(b) = 0 THEN FALSE
    ELSE IF Len(a) = 0 THEN TRUE
    ELSE IF Head(a) < Head(b) THEN TRUE
    ELSE IF Head(a) > Head(b) THEN FALSE
    ELSE IntSeqLess(Tail(a), Tail(b))

\* the facets in the order the hull lists them: by the positions of their entries
RECURSIVE FacetSeq(_)
FacetSeq(fs) ==
    IF fs = {} THEN <<>>
    ELSE LET f == CHOOSE f \in fs :
                    \A g \in fs : g = f \/ IntSeqLess(IdxSeq(f.idx), IdxSeq(g.idx))
         IN  <<f>> \o FacetSeq(fs \ {f})

EmptyMap == [x \in {} |-> 0]

\* one record of a chemical-potential table: the dict of one facet.  mu holds the
\* Element-keyed items, smu the str-keyed items, tag the 'name-append' item
Record(key, mu, smu, tagged, tag) ==
    [key |-> key, mu |-> mu, smu |-> smu, tagged |-> tagged, tag |-> tag]

\* pd.get_all_chempots(comp): facet name -> chemical potentials, for the facets holding comp
get_all_chempots(es, comp) ==
    LET fs == FacetSeq({f \in PDFacets(es) : InSimplex(es, f.idx, comp)})
    IN  [k \in 1..Len(fs) |->
            Record(StrJoin([n \in 1..Len(IdxSeq(fs[k].idx)) |-> es[IdxSeq(fs[k].idx)[n]].name]),
                   fs[k].mu, EmptyMap, FALSE, <<>>)]

\* pd.stable_entries
StableEntries(es) == {es[i] : i \in UNION {f.idx : f \in PDFacets(es)}}

\* pd.get_decomp_and_e_above_hull(entry, allow_negative=True)[1] times the atoms of
\* the entry: the entry's energy minus the hull's energy at its composition
EAboveHullTotal(es, entry) ==
    LET f == CHOOSE f \in PDFacets(es) : InSimplex(es, f.idx, entry.comp)
    IN  entry.energy - Dot(entry.comp, f.mu, PDElements(es))

NumAtoms(comp) == comp["Ca"] + comp["O"] + comp["C"] + comp["S"]

\* round(x, 4) for x = num/den: to the nearest multiple of 0.0001, ties to even
RoundHalfEven(num, den) ==
    LET fl == num \div den
        r2 == 2 * (num - fl * den)
    IN  IF r2 < den THEN fl
        ELSE IF r2 > den THEN fl + 1
        ELSE IF fl % 2 = 0 THEN fl ELSE fl + 1

\* e_above_hull in eV/atom rounded to 4 places, in units of 0.0001 eV/atom:
\* one energy unit is 0.00004 eV, that is 4/10 of 0.0001 eV
RoundedDecompEn(es, entry) ==
    RoundHalfEven(4 * EAboveHullTotal(es, entry), 10 * NumAtoms(entry.comp))

(***************************************************************************)
(* Chemical-potential tables: Python dicts in insertion order, as          *)
(* sequences of records with distinct keys.                                *)
(***************************************************************************)
TableKeys(tbl) == {tbl[i].key : i \in 1..Len(tbl)}

TableHas(tbl, key) == key \in TableKeys(tbl)

TableGet(tbl, key) == tbl[CHOOSE i \in 1..Len(tbl) : tbl[i].key = key]

\* tbl[key] = rec
TablePut(tbl, key, rec) ==
    LET r == [rec EXCEPT !.key = key]
    IN  IF TableHas(tbl, key)
        THEN [i \in 1..Len(tbl) |-> IF tbl[i].key = key THEN r ELSE tbl[i]]
        ELSE Append(tbl, r)

(***************************************************************************)
(* ChemPotAnalyzer.get_chempots_from_pd: pd is given by its entry list     *)
(***************************************************************************)
HullWithoutTarget(pd_entries, bulk) == pd_entries

\* lines 51-53: the entries of the rebuilt phase diagram
HullEntries(pd_entries, bulk) == Append(pd_entries, bulk)

get_chempots_from_pd(pd_entries, bulk) ==
    get_all_chempots(HullEntries(pd_entries, bulk), bulk.comp)

\* what one facet solve was given and what it returned
SolveRecord(pd_entries, bulk, table) ==
    [entries |-> pd_entries, hull |-> HullEntries(pd_entries, bulk),
     at |-> bulk.comp, table |-> table]

(***************************************************************************)
(* MPChemPotAnalyzer.get_mp_entries                                        *)
(***************************************************************************)
\* self.bulk_ce after lines 302-311 and 335-336
BulkAfterGather(bulk, id, full) ==
    IF bulk # NoEntry
    THEN IF ~full /\ id # "None" THEN get_entry_by_material_id(id) ELSE bulk
    ELSE get_entry_by_material_id(id)

\* the entry the species and the reduced composition are read from (lines 303-310)
BulkForSpecies(bulk, id) ==
    IF bulk # NoEntry THEN bulk ELSE get_entry_by_material_id(id)

KeepGathered(symbols, subs, full, hasCaO, rev) ==
    IF bulk_derived # <<>> THEN bulk_derived
    ELSE IF full
    THEN get_entries_in_chemsys(SeqToSet(symbols \o subs), hasCaO, rev)
    ELSE get_entries_in_chemsys(SeqToSet(symbols), hasCaO, rev)

\* self.entries['bulk_derived'] (lines 319-324 and 334)
GatherBulkDerived(symbols, subs, full, hasCaO, rev) ==
    IF full
    THEN get_entries_in_chemsys(SeqToSet(symbols \o subs), hasCaO, rev)
    ELSE get_entries_in_chemsys(SeqToSet(symbols), hasCaO, rev)

\* self.entries['subs_set'] (lines 326-330 and 344-361)
GatherSubsSet(symbols, subs, full, hasCaO, rev) ==
    LET bulk_list == GatherBulkDerived(symbols, subs, full, hasCaO, rev)
        bulk_entry_set == {bulk_list[i].id : i \in 1..Len(bulk_list)}
    IN  [sub_el \in SeqToSet(subs) |->
            IF full
            THEN SelectSeq(bulk_list, LAMBDA e : e.comp[sub_el] > 0)
            ELSE SelectSeq(get_entries_in_chemsys(SeqToSet(symbols) \cup {sub_el}, hasCaO, rev),
                           LAMBDA e : e.id \notin bulk_entry_set)]

\* lines 346-350: in the dilute mode the retrieval for some element comes back empty
SubRetrievalEmpty(symbols, subs, full, hasCaO, rev) ==
    /\ ~full
    /\ \E k \in 1..Len(subs) :
          get_entries_in_chemsys(SeqToSet(symbols) \cup {subs[k]}, hasCaO, rev) = <<>>

(***************************************************************************)
(* MPChemPotAnalyzer.analyze_GGA_chempots: the stability classification    *)
(***************************************************************************)
StableNotStrict(en) == en < 0

\* decomp_en <= 0 (lines 164 and 168)
HullStable(en) == en <= 0

\* the branch of lines 164-193 that runs
StabilityStatus(en, exists) ==
    IF HullStable(en) /\ exists THEN "STABLE_KNOWN"
    ELSE IF HullStable(en) /\ ~exists THEN "STABLE_NEW"
    ELSE IF exists THEN "UNSTABLE_KNOWN_PHASE"
    ELSE "UNSTABLE_NEW"

AppendWheneverNew(entry_list, st, bulk) ==
    IF st \in {"STABLE_NEW", "UNSTABLE_NEW"} THEN Append(entry_list, bulk) ELSE entry_list

\* entry_list after the classification: only line 179 appends
ClassifiedEntryList(entry_list, st, bulk) ==
    IF st = "STABLE_NEW" THEN Append(entry_list, bulk) ELSE entry_list

\* lines 159-162
StableCompositionExists(entry_list, comp) ==
    \E e \in StableEntries(entry_list) : e.comp = comp

(***************************************************************************)
(* MPChemPotAnalyzer.analyze_GGA_chempots: the dilute merge                *)
(***************************************************************************)
RECURSIVE EmptyBulkTable(_, _)
EmptyBulkTable(lims, fin) ==
    IF Len(lims) = 0 THEN fin
    ELSE LET part == diff_bulk_sub_phases(StrSplit(Head(lims).key), <<>>)
         IN  EmptyBulkTable(Tail(lims),
                            TablePut(fin, part.blknom,
                                     Record(part.blknom, EmptyMap, EmptyMap, FALSE, <<>>)))

\* lines 201-206: the bulk-only table under canonical keys
RECURSIVE BulkOnlyTable(_, _)
BulkOnlyTable(lims, fin) ==
    IF Len(lims) = 0 THEN fin
    ELSE LET part == diff_bulk_sub_phases(StrSplit(Head(lims).key), <<>>)
         IN  BulkOnlyTable(Tail(lims), TablePut(fin, part.blknom, Head(lims)))

AcceptsBulkFacetPlusOne(blk, symbols) == Len(blk) = Len(symbols)

\* line 228
FacetAccepted(blk, symbols) == Len(blk) + 1 = Len(symbols)

LastNameOnly(rec, subnom) == [rec EXCEPT !.tagged = TRUE, !.tag = subnom]

\* lines 234-237: the 'name-append' item
WithNameAppend(rec, subnom) ==
    IF ~rec.tagged
    THEN [rec EXCEPT !.tagged = TRUE, !.tag = subnom]
    ELSE [rec EXCEPT !.tag = rec.tag \o <<Dash>> \o subnom]

OverwriteRecord(fin, blknom, subnom, sub_el, rec) ==
    TablePut(fin, blknom, WithNameAppend(rec, subnom))

\* lines 229-237: fold one accepted facet into finchem_lims
MergeRecord(fin, blknom, subnom, sub_el, rec) ==
    LET placed == IF ~TableHas(fin, blknom)
                  THEN rec
                  ELSE [TableGet(fin, blknom) EXCEPT
                           !.smu = (sub_el :> rec.mu[sub_el]) @@ TableGet(fin, blknom).smu]
    IN  TablePut(fin, blknom, WithNameAppend(placed, subnom))

\* lines 215-217
SubSpecieEntries(entry_list, subs, sub_el) == entry_list \o subs[sub_el]

\* lines 222-241 for one key of chem_lims
MergeOneFacet(fin, rec, sub_el, symbols) ==
    LET part == diff_bulk_sub_phases(StrSplit(rec.key), SymChars(sub_el))
    IN  IF FacetAccepted(part.blk, symbols)
        THEN MergeRecord(fin, part.blknom, part.subnom, sub_el, rec)
        ELSE fin

\* lines 244-246
Overdependent(fin, symbols) == Len(fin) # Len(symbols)

\* lines 256-258: every substitutional entry appended to entry_list
RECURSIVE WithAllSubEntries(_, _, _)
WithAllSubEntries(entry_list, subs, order) ==
    IF Len(order) = 0 THEN entry_list
    ELSE WithAllSubEntries(entry_list \o subs[Head(order)], subs, Tail(order))

(***************************************************************************)
(* The analyzer as a state machine: a method is called on a freshly        *)
(* constructed analyzer; analyze_GGA_chempots may then be called again.    *)
(***************************************************************************)
MaxSubs == 2       \* most substitutional elements handed to the analyzer

SubElements == {"S", "C"}

SubOrders ==
    {s \in UNION {[1..n -> SubElements] : n \in 0..MaxSubs} :
        \A i, j \in 1..Len(s) : i # j => s[i] # s[j]}

PartIdle ==
    /\ face_list = <<>>
    /\ sub_el_arg = <<>>
    /\ part_out = <<>>
    /\ part_first = <<>>

AnalyzerFresh ==
    /\ pc = "start"
    /\ bulk_derived = <<>>
    /\ subs_set = EmptyMap
    /\ bulk_species_symbol = <<>>
    /\ redcomp = Comp(0, 0, 0, 0)
    /\ decomp_en = 0
    /\ stable_composition_exists = FALSE
    /\ status = "none"
    /\ chem_lims = <<>>
    /\ finchem_lims = <<>>
    /\ sub_idx = 0
    /\ key_idx = 0
    /\ overdependent_chempot = FALSE
    /\ result = NoResult
    /\ bulk_table = <<>>
    /\ solve_log = <<>>
    /\ calls = 1
    /\ first_call = <<>>

Init ==
    /\ PartIdle
    /\ AnalyzerFresh
    /\ db_has_CaO \in BOOLEAN
    /\ db_rev \in BOOLEAN
    /\ db_empty \in (IF db_has_CaO \/ db_rev THEN {FALSE} ELSE BOOLEAN)
    /\ bulk_ce \in BulkChoices \cup {NoEntry}
    /\ mpid \in {"None"} \cup
         (IF db_has_CaO /\ ~db_empty /\ (bulk_ce = NoEntry \/ bulk_ce.comp = mpCaO.comp)
          THEN {"mp-CaO"} ELSE {})
    /\ sub_species \in SubOrders
    /\ full_sub_approach \in BOOLEAN

\* get_mp_entries, lines 312-316: neither a bulk entry nor an mpid
GetMpEntriesFail ==
    /\ pc = "start"
    /\ bulk_ce = NoEntry
    /\ mpid = "None"
    /\ pc' = "error"
    /\ UNCHANGED <<pvars, db_empty, calls, first_call, db_has_CaO, db_rev, bulk_ce, mpid, sub_species,
                   full_sub_approach, bulk_derived, subs_set, bulk_species_symbol,
                   redcomp, decomp_en, stable_composition_exists, status, chem_lims,
                   finchem_lims, sub_idx, key_idx, overdependent_chempot, result,
                   bulk_table, solve_log>>

\* get_mp_entries, lines 346-354: the retrieval for a substitutional element is empty
GetMpEntriesSubFail ==
    /\ pc = "start"
    /\ bulk_ce # NoEntry \/ mpid # "None"
    /\ LET src == BulkForSpecies(bulk_ce, mpid)
           symbols == SymbolList(EntryElements(src))
       IN  /\ SubRetrievalEmpty(symbols, sub_species, full_sub_approach,
                                db_has_CaO, db_rev)
           /\ bulk_species_symbol' = symbols
           /\ redcomp' = src.comp
           /\ bulk_ce' = BulkAfterGather(bulk_ce, mpid, full_sub_approach)
           /\ bulk_derived' = GatherBulkDerived(symbols, sub_species, full_sub_approach,
                                                db_has_CaO, db_rev)
    /\ subs_set' = EmptyMap
    /\ pc' = "error"
    /\ UNCHANGED <<pvars, db_empty, calls, first_call, db_has_CaO, db_rev, mpid,
                   sub_species, full_sub_approach,
                   decomp_en, stable_composition_exists, status, chem_lims,
                   finchem_lims, sub_idx, key_idx, overdependent_chempot, result,
                   bulk_table, solve_log>>

\* line 149: get_mp_entries
GetMpEntries ==
    /\ pc = "start"
    /\ bulk_ce # NoEntry \/ mpid # "None"
    /\ ~SubRetrievalEmpty(SymbolList(EntryElements(BulkForSpecies(bulk_ce, mpid))),
                          sub_species, full_sub_approach, db_has_CaO, db_rev)
    /\ LET src == BulkForSpecies(bulk_ce, mpid)
           symbols == SymbolList(EntryElements(src))
       IN  /\ bulk_species_symbol' = symbols
           /\ redcomp' = src.comp
           /\ bulk_ce' = BulkAfterGather(bulk_ce, mpid, full_sub_approach)
           /\ bulk_derived' = GatherBulkDerived(symbols, sub_species, full_sub_approach,
                                                db_has_CaO, db_rev)
           /\ subs_set' = GatherSubsSet(symbols, sub_species, full_sub_approach,
                                        db_has_CaO, db_rev)
    /\ pc' = "classify"
    /\ UNCHANGED <<pvars, db_empty, calls, first_call, db_has_CaO, db_rev, mpid, sub_species, full_sub_approach,
                   decomp_en, stable_composition_exists, status, chem_lims,
                   finchem_lims, sub_idx, key_idx, overdependent_chempot, result,
                   bulk_table, solve_log>>

\* line 154: PhaseDiagram(entry_list) of an empty list; the library raises
ClassifyFails ==
    /\ pc = "classify"
    /\ bulk_derived = <<>>
    /\ pc' = "library_error"
    /\ UNCHANGED <<pvars, db_empty, calls, first_call, db_has_CaO, db_rev, bulk_ce,
                   mpid, sub_species, full_sub_approach, bulk_derived, subs_set,
                   bulk_species_symbol, redcomp, decomp_en, stable_composition_exists,
                   status, chem_lims, finchem_lims, sub_idx, key_idx,
                   overdependent_chempot, result, bulk_table, solve_log>>

\* lines 153-193: the stability classification
Classify ==
    /\ pc = "classify"
    /\ bulk_derived # <<>>
    /\ decomp_en' = RoundedDecompEn(bulk_derived, bulk_ce)
    /\ stable_composition_exists' = StableCompositionExists(bulk_derived, redcomp)
    /\ status' = StabilityStatus(decomp_en', stable_composition_exists')
    /\ bulk_derived' = ClassifiedEntryList(bulk_derived, status', bulk_ce)
    /\ pc' = "solve_bulk"
    /\ UNCHANGED <<pvars, db_empty, calls, first_call, db_has_CaO, db_rev, bulk_ce, mpid, sub_species,
                   full_sub_approach, subs_set, bulk_species_symbol, redcomp,
                   chem_lims, finchem_lims, sub_idx, key_idx, overdependent_chempot,
                   result, bulk_table, solve_log>>

\* lines 195-198 (and the return of line 263 when full_sub_approach)
SolveBulk ==
    /\ pc = "solve_bulk"
    /\ chem_lims' = get_chempots_from_pd(bulk_derived, bulk_ce)
    /\ solve_log' = Append(solve_log, SolveRecord(bulk_derived, bulk_ce, chem_lims'))
    /\ IF full_sub_approach
       THEN pc' = "done" /\ result' = chem_lims'
       ELSE pc' = "init_merge" /\ result' = result
    /\ UNCHANGED <<pvars, db_empty, calls, first_call, db_has_CaO, db_rev, bulk_ce, mpid, sub_species,
                   full_sub_approach, bulk_derived, subs_set, bulk_species_symbol,
                   redcomp, decomp_en, stable_composition_exists, status,
                   finchem_lims, sub_idx, key_idx, overdependent_chempot, bulk_table>>

\* lines 201-206
InitMerge ==
    /\ pc = "init_merge"
    /\ finchem_lims' = BulkOnlyTable(chem_lims, <<>>)
    /\ bulk_table' = finchem_lims'
    /\ sub_idx' = 1
    /\ pc' = "sub_loop"
    /\ UNCHANGED <<pvars, db_empty, calls, first_call, db_has_CaO, db_rev, bulk_ce, mpid, sub_species,
                   full_sub_approach, bulk_derived, subs_set, bulk_species_symbol,
                   redcomp, decomp_en, stable_composition_exists, status, chem_lims,
                   key_idx, overdependent_chempot, result, solve_log>>

\* lines 214-220: the augmented solve for the next substitutional element
SubSolve ==
    /\ pc = "sub_loop"
    /\ sub_idx <= Len(sub_species)
    /\ LET sub_specie_entries ==
               SubSpecieEntries(bulk_derived, subs_set, sub_species[sub_idx])
       IN  /\ chem_lims' = get_chempots_from_pd(sub_specie_entries, bulk_ce)
           /\ solve_log' = Append(solve_log, SolveRecord(sub_specie_entries, bulk_ce,
                                                       chem_lims'))
    /\ key_idx' = 1
    /\ pc' = "merge_facets"
    /\ UNCHANGED <<pvars, db_empty, calls, first_call, db_has_CaO, db_rev, bulk_ce, mpid, sub_species,
                   full_sub_approach, bulk_derived, subs_set, bulk_species_symbol,
                   redcomp, decomp_en, stable_composition_exists, status,
                   finchem_lims, sub_idx, overdependent_chempot, result, bulk_table>>

\* lines 222-241: one turn of the loop over chem_lims.keys()
MergeFacet ==
    /\ pc = "merge_facets"
    /\ key_idx <= Len(chem_lims)
    /\ finchem_lims' = MergeOneFacet(finchem_lims, chem_lims[key_idx],
                                     sub_species[sub_idx], bulk_species_symbol)
    /\ key_idx' = key_idx + 1
    /\ UNCHANGED <<pvars, db_empty, calls, first_call, pc, db_has_CaO, db_rev, bulk_ce, mpid, sub_species,
                   full_sub_approach, bulk_derived, subs_set, bulk_species_symbol,
                   redcomp, decomp_en, stable_composition_exists, status, chem_lims,
                   sub_idx, overdependent_chempot, result, bulk_table, solve_log>>

\* the loop over chem_lims.keys() ends: back to line 214
NextSub ==
    /\ pc = "merge_facets"
    /\ key_idx > Len(chem_lims)
    /\ sub_idx' = sub_idx + 1
    /\ pc' = "sub_loop"
    /\ UNCHANGED <<pvars, db_empty, calls, first_call, db_has_CaO, db_rev, bulk_ce, mpid, sub_species,
                   full_sub_approach, bulk_derived, subs_set, bulk_species_symbol,
                   redcomp, decomp_en, stable_composition_exists, status, chem_lims,
                   finchem_lims, key_idx, overdependent_chempot, result, bulk_table,
                   solve_log>>

\* lines 243-263: the overdetermination check, the escalation and the return
CheckAndReturn ==
    /\ pc = "sub_loop"
    /\ sub_idx > Len(sub_species)
    /\ overdependent_chempot' = Overdependent(finchem_lims, bulk_species_symbol)
    /\ IF ~overdependent_chempot'
       THEN /\ chem_lims' = finchem_lims
            /\ UNCHANGED <<bulk_derived, solve_log>>
       ELSE /\ bulk_derived' = WithAllSubEntries(bulk_derived, subs_set, sub_species)
            /\ chem_lims' = get_chempots_from_pd(bulk_derived', bulk_ce)
            /\ solve_log' = Append(solve_log, SolveRecord(bulk_derived', bulk_ce, chem_lims'))
    /\ result' = chem_lims'
    /\ pc' = "done"
    /\ UNCHANGED <<pvars, db_empty, calls, first_call, db_has_CaO, db_rev, bulk_ce, mpid, sub_species,
                   full_sub_approach, subs_set, bulk_species_symbol, redcomp,
                   decomp_en, stable_composition_exists, status, finchem_lims,
                   sub_idx, key_idx, bulk_table>>

\* get_chempots_from_pd called on its own, lines 41-45: no bulk entry
GetChempotsFail ==
    /\ pc = "start"
    /\ calls = 1
    /\ bulk_ce = NoEntry
    /\ pc' = "pd_error"
    /\ UNCHANGED <<pvars, db_empty, calls, first_call, db_has_CaO, db_rev, bulk_ce, mpid, sub_species,
                   full_sub_approach, bulk_derived, subs_set, bulk_species_symbol,
                   redcomp, decomp_en, stable_composition_exists, status, chem_lims,
                   finchem_lims, sub_idx, key_idx, overdependent_chempot, result,
                   bulk_table, solve_log>>

\* get_chempots_from_pd called on its own, lines 46-57, with the phase diagram of
\* the database's entries for the bulk's chemical system
GetChempotsAlone ==
    /\ pc = "start"
    /\ calls = 1
    /\ ~db_empty
    /\ bulk_ce # NoEntry
    /\ LET pd_entries == get_entries_in_chemsys(EntryElements(bulk_ce), db_has_CaO, db_rev)
       IN  /\ chem_lims' = get_chempots_from_pd(pd_entries, bulk_ce)
           /\ solve_log' = Append(solve_log, SolveRecord(pd_entries, bulk_ce, chem_lims'))
    /\ result' = chem_lims'
    /\ pc' = "pd_done"
    /\ UNCHANGED <<pvars, db_empty, calls, first_call, db_has_CaO, db_rev, bulk_ce, mpid, sub_species,
                   full_sub_approach, bulk_derived, subs_set, bulk_species_symbol,
                   redcomp, decomp_en, stable_composition_exists, status,
                   finchem_lims, sub_idx, key_idx, overdependent_chempot, bulk_table>>

\* UserChemPotAnalyzer.read_phase_diagram_and_chempots, lines 419-452: the folder
\* and the bulk entry it needs.  The analyzer has no mpid.
ReadPhaseDiagramStart ==
    /\ pc = "start"
    /\ calls = 1
    /\ mpid = "None"
    /\ \E pdfile_exists \in BOOLEAN, vr_path_exists \in BOOLEAN :
          IF ~pdfile_exists
          THEN pc' = "user_no_pdfile" /\ UNCHANGED <<bulk_ce, redcomp>>
          ELSE IF bulk_ce = NoEntry /\ ~vr_path_exists
          THEN pc' = "user_no_bulk" /\ UNCHANGED <<bulk_ce, redcomp>>
          ELSE /\ pc' = "user_ready"
               /\ IF bulk_ce = NoEntry
                  THEN bulk_ce' \in BulkChoices
                  ELSE bulk_ce' = bulk_ce
               /\ redcomp' = bulk_ce'.comp
    /\ UNCHANGED <<pvars, db_empty, calls, first_call, db_has_CaO, db_rev, mpid, sub_species,
                   full_sub_approach, bulk_derived, subs_set, bulk_species_symbol,
                   decomp_en, stable_composition_exists, status, chem_lims,
                   finchem_lims, sub_idx, key_idx, overdependent_chempot, result,
                   bulk_table, solve_log>>

\* the caller runs analyze_GGA_chempots once more on the same analyzer, with the
\* same argument: the attributes stay, the locals start afresh
AnalyzeAgain ==
    /\ pc = "done"
    /\ calls = 1
    /\ calls' = 2
    /\ first_call' = <<[result |-> result, bulk_ce |-> bulk_ce, redcomp |-> redcomp,
                        subs_set |-> subs_set, solve_log |-> solve_log,
                        status |-> status, decomp_en |-> decomp_en]>>
    /\ pc' = "start"
    /\ decomp_en' = 0
    /\ stable_composition_exists' = FALSE
    /\ status' = "none"
    /\ chem_lims' = <<>>
    /\ finchem_lims' = <<>>
    /\ sub_idx' = 0
    /\ key_idx' = 0
    /\ overdependent_chempot' = FALSE
    /\ result' = NoResult
    /\ bulk_table' = <<>>
    /\ solve_log' = <<>>
    /\ UNCHANGED <<pvars, db_empty, db_has_CaO, db_rev, bulk_ce, mpid, sub_species,
                   full_sub_approach, bulk_derived, subs_set, bulk_species_symbol,
                   redcomp>>

Next ==
    \/ AnalyzeAgain
    \/ GetMpEntriesSubFail
    \/ ClassifyFails
    \/ GetChempotsFail
    \/ GetChempotsAlone
    \/ ReadPhaseDiagramStart
    \/ GetMpEntriesFail
    \/ GetMpEntries
    \/ Classify
    \/ SolveBulk
    \/ InitMerge
    \/ SubSolve
    \/ MergeFacet
    \/ NextSub
    \/ CheckAndReturn

Spec == Init /\ [][Next]_vars

(***************************************************************************)
(* The partitioner on its own: diff_bulk_sub_phases is called on a facet,  *)
(* the facet is reordered, and it is called again.                         *)
(***************************************************************************)
PhaseNames == {DBUniverse[i].name : i \in 1..Len(DBUniverse)}

FaceLists == UNION {[1..n -> PhaseNames] : n \in 1..MaxFaces}

TargetChoices == {<<>>} \cup {SymChars(el) : el \in Elements}

AnalyzerIdle ==
    /\ AnalyzerFresh
    /\ db_has_CaO = FALSE
    /\ db_rev = FALSE
    /\ db_empty = FALSE
    /\ bulk_ce = NoEntry
    /\ mpid = "None"
    /\ sub_species = <<>>
    /\ full_sub_approach = FALSE

PartInit ==
    /\ AnalyzerIdle
    /\ face_list \in FaceLists
    /\ sub_el_arg \in TargetChoices
    /\ part_out = <<>>
    /\ part_first = <<>>

\* a call of diff_bulk_sub_phases(face_list, sub_el)
Partition ==
    /\ part_out = <<>>
    /\ part_out' = <<diff_bulk_sub_phases(face_list, sub_el_arg)>>
    /\ part_first' = IF part_first = <<>>
                     THEN <<[faces |-> face_list, out |-> part_out'[1]]>>
                     ELSE part_first
    /\ UNCHANGED <<face_list, sub_el_arg, avars>>

\* the caller hands the same facet in another order
Shuffle ==
    /\ part_out # <<>>
    /\ \E i \in 1..(Len(face_list) - 1) :
          face_list' = [face_list EXCEPT ![i] = face_list[i + 1],
                                         ![i + 1] = face_list[i]]
    /\ part_out' = <<>>
    /\ UNCHANGED <<sub_el_arg, part_first, avars>>

PartNext == Partition \/ Shuffle

PartSpec == PartInit /\ [][PartNext]_vars

(***************************************************************************)
(* Claims about the partitioner (checked under PartSpec).                  *)
(***************************************************************************)
IsSortedNames(p) == \A i, j \in 1..Len(p) : i < j => ~StrLess(p[j], p[i])

\* the arrangements of the members of a list
Arrangements(members) ==
    {[k \in 1..Len(members) |-> members[q[k]]] :
        q \in {r \in [1..Len(members) -> 1..Len(members)] :
                  \A a, b \in 1..Len(members) : a # b => r[a] # r[b]}}

\* label is the members in lexicographic order joined with '-'
IsSortedJoin(label, members) ==
    \E p \in Arrangements(members) : IsSortedNames(p) /\ label = StrJoin(p)

BulkMembers(faces, sub_el) == SelectSeq(faces, LAMBDA f : ~GoesToSub(f, sub_el))

SubMembers(faces, sub_el) == SelectSeq(faces, LAMBDA f : GoesToSub(f, sub_el))

\* C9: whatever the order in which a facet's phases are handed over, the partitioner
\* returns the bulkLabel and subLabel of the first call, and each label is its
\* subset's members in lexicographic order joined with '-'.
C9_PermutationInvariant ==
    part_out # <<>> =>
        /\ part_out[1].blknom = part_first[1].out.blknom
        /\ part_out[1].subnom = part_first[1].out.subnom
        /\ IsSortedJoin(part_out[1].blknom, BulkMembers(face_list, sub_el_arg))
        /\ IsSortedJoin(part_out[1].subnom, SubMembers(face_list, sub_el_arg))

\* a facet of three phases, handed over in an order that is not the sorted one and
\* not the first one, with both subsets non-empty, has been partitioned
C9_Witness ==
    /\ part_out # <<>>
    /\ Len(face_list) = 3
    /\ face_list # part_first[1].faces
    /\ ~IsSortedNames(face_list)
    /\ Len(part_out[1].blknom) > 0
    /\ Len(part_out[1].subnom) > 0

\* the composition of the phase called name
NameComp(name) ==
    LET i == CHOOSE i \in 1..Len(DBUniverse) : DBUniverse[i].name = name
    IN  DBUniverse[i].comp

\* whether the target element is one of the elements of the phase's composition
PhaseHasElement(name, target) ==
    \E el \in Elements : SymChars(el) = target /\ NameComp(name)[el] > 0

\* C10: a phase is in bulkSubset exactly when the target element is not an element
\* of its composition and in the substitutional subset exactly when it is; with the
\* target unset bulkSubset is the whole list and the substitutional label is empty.
C10_PartitionByElement ==
    part_out # <<>> =>
        /\ \A i \in 1..Len(face_list) :
              /\ face_list[i] \in SeqToSet(part_out[1].blk)
                    <=> ~PhaseHasElement(face_list[i], sub_el_arg)
              /\ (Len(part_out[1].subnom) > 0
                     /\ face_list[i] \in SeqToSet(StrSplit(part_out[1].subnom)))
                    <=> PhaseHasElement(face_list[i], sub_el_arg)
        /\ sub_el_arg = <<>> =>
              /\ Len(part_out[1].blk) = Len(face_list)
              /\ part_out[1].subnom = <<>>

(***************************************************************************)
(* Claims about analyze_GGA_chempots (checked under Spec).                 *)
(***************************************************************************)
Classified == pc \in {"solve_bulk", "init_merge", "sub_loop", "merge_facets", "done"}

\* C1: the stability status is a total function of (decomposition energy <= 0, a
\* stable vertex of the target's reduced composition exists): stable and known,
\* stable and new, unstable and known, unstable and new; an energy of exactly 0
\* counts as stable.
C1_StatusIsTotalFunction ==
    Classified =>
        /\ status \in {"STABLE_KNOWN", "STABLE_NEW", "UNSTABLE_KNOWN_PHASE", "UNSTABLE_NEW"}
        /\ (decomp_en <= 0 /\ stable_composition_exists) <=> status = "STABLE_KNOWN"
        /\ (decomp_en <= 0 /\ ~stable_composition_exists) <=> status = "STABLE_NEW"
        /\ (decomp_en > 0 /\ stable_composition_exists) <=> status = "UNSTABLE_KNOWN_PHASE"
        /\ (decomp_en > 0 /\ ~stable_composition_exists) <=> status = "UNSTABLE_NEW"
        /\ decomp_en = 0 => status \in {"STABLE_KNOWN", "STABLE_NEW"}

\* a target whose decomposition energy is exactly 0 has been classified
C1_Witness ==
    /\ Classified
    /\ decomp_en = 0
    /\ status = "STABLE_KNOWN"

\* C2: the classification appends the target entry to the reference set, once, only
\* when the status is STABLE_NEW; under every other status the reference set is left
\* as it was.
C2_OnlyStableNewAppends ==
    [][(pc = "classify" /\ pc' = "solve_bulk") =>
          IF status' = "STABLE_NEW"
          THEN bulk_derived' = Append(bulk_derived, bulk_ce)
          ELSE bulk_derived' = bulk_derived]_vars

\* a STABLE_NEW target has been classified and is the last entry of the reference set
C2_Witness ==
    /\ pc = "solve_bulk"
    /\ status = "STABLE_NEW"
    /\ Len(bulk_derived) > 0
    /\ bulk_derived[Len(bulk_derived)] = bulk_ce

\* C3: the dilute merge is declared overdetermined, and escalates, exactly when the
\* merged table has another number of facet keys than the bulk-only table;
\* otherwise the merged table is returned.
C3_EscalatesIffKeyCountsDiffer ==
    (pc = "done" /\ ~full_sub_approach) =>
        /\ overdependent_chempot <=> Len(finchem_lims) # Len(bulk_table)
        /\ ~overdependent_chempot => result = finchem_lims

\* the dict stored under a key: every item but the key
Vector(rec) == [mu |-> rec.mu, smu |-> rec.smu, tagged |-> rec.tagged, tag |-> rec.tag]

\* the entry sets of the substitutional elements, as one set
AllSubEntries == UNION {SeqToSet(subs_set[el]) : el \in DOMAIN subs_set}

\* C4: after an escalation the returned table is the output of one facet solve over
\* the bulk entries and every substitutional element's entries, and no key, no
\* value and no name-append tag of the discarded merged table is in it.
C4_EscalatedResultIsJointSolve ==
    (pc = "done" /\ overdependent_chempot) =>
        LET joint == solve_log[Len(solve_log)]
        IN  /\ result = joint.table
            /\ SeqToSet(joint.entries) = SeqToSet(solve_log[1].entries) \cup AllSubEntries
            /\ \A i \in 1..Len(result) :
                  /\ ~result[i].tagged
                  /\ \A j \in 1..Len(finchem_lims) :
                        /\ result[i].key # finchem_lims[j].key
                        /\ Vector(result[i]) # Vector(finchem_lims[j])

\* the turn of the merge loop that is about to run
TurnRec == chem_lims[key_idx]
TurnSub == sub_species[sub_idx]
TurnPart == diff_bulk_sub_phases(StrSplit(TurnRec.key), SymChars(TurnSub))
MergeTurn == pc = "merge_facets" /\ key_idx' = key_idx + 1

\* C5: a facet of an augmented solve is merged iff the size of its bulk subset plus
\* one equals the number of bulk elements; a facet that fails the test leaves the
\* merged table unchanged.
C5_MergedIffPlusOne ==
    [][MergeTurn =>
          IF Len(TurnPart.blk) + 1 = Len(bulk_species_symbol)
          THEN /\ finchem_lims' # finchem_lims
               /\ TableHas(finchem_lims', TurnPart.blknom)
               /\ TableGet(finchem_lims', TurnPart.blknom).tagged
          ELSE finchem_lims' = finchem_lims]_vars

PlusOne(key, sub_el) ==
    Len(diff_bulk_sub_phases(StrSplit(key), SymChars(sub_el)).blk) + 1
        = Len(bulk_species_symbol)

\* an augmented solve has been folded in, with a facet merged and a facet left out
C5_Witness ==
    /\ pc = "merge_facets"
    /\ key_idx = Len(chem_lims) + 1
    /\ finchem_lims # bulk_table
    /\ \E i \in 1..Len(chem_lims) : PlusOne(chem_lims[i].key, TurnSub)
    /\ \E i \in 1..Len(chem_lims) : ~PlusOne(chem_lims[i].key, TurnSub)

\* the phases of a facet whose composition holds the element
PhasesWith(key, el) ==
    {i \in 1..Len(StrSplit(key)) : NameComp(StrSplit(key)[i])[el] > 0}

\* C6: of the facets of an augmented solve with as many phases as the augmented
\* system has elements, the accepted ones hold exactly one phase that contains the
\* substitutional element, and one with two or more such phases is discarded.
C6_AcceptedHasOneSubPhase ==
    (pc = "merge_facets" /\ key_idx <= Len(chem_lims)
        /\ Len(StrSplit(TurnRec.key)) = Len(bulk_species_symbol) + 1) =>
        LET nsub == Cardinality(PhasesWith(TurnRec.key, TurnSub))
            accepted == FacetAccepted(TurnPart.blk, bulk_species_symbol)
        IN  /\ accepted => nsub = 1
            /\ nsub >= 2 => ~accepted

\* C7: merging an accepted facet under a key the table lacks stores the augmented
\* facet's full vector, mu(s) included; under a key the table has, only the mu(s)
\* item and the tag of the record change; and the bulk elements' mu of every record
\* of the bulk-only table are never changed by a merge.
C7_MergeKeepsBulkMu ==
    [][MergeTurn =>
          LET blknom == TurnPart.blknom
          IN  /\ \A k \in TableKeys(finchem_lims) \ {blknom} :
                    /\ TableHas(finchem_lims', k)
                    /\ TableGet(finchem_lims', k) = TableGet(finchem_lims, k)
              /\ (FacetAccepted(TurnPart.blk, bulk_species_symbol)
                     /\ ~TableHas(finchem_lims, blknom)) =>
                    /\ TableGet(finchem_lims', blknom).mu = TurnRec.mu
                    /\ TurnSub \in DOMAIN TableGet(finchem_lims', blknom).mu
                    /\ TableGet(finchem_lims', blknom).smu = EmptyMap
              /\ (FacetAccepted(TurnPart.blk, bulk_species_symbol)
                     /\ TableHas(finchem_lims, blknom)) =>
                    LET old == TableGet(finchem_lims, blknom)
                        new == TableGet(finchem_lims', blknom)
                    IN  /\ new.mu = old.mu
                        /\ DOMAIN new.smu = DOMAIN old.smu \cup {TurnSub}
                        /\ new.smu[TurnSub] = TurnRec.mu[TurnSub]
                        /\ \A el \in DOMAIN old.smu \ {TurnSub} : new.smu[el] = old.smu[el]
              /\ \A i \in 1..Len(bulk_table) :
                    /\ TableHas(finchem_lims', bulk_table[i].key)
                    /\ \A el \in SeqToSet(bulk_species_symbol) :
                          TableGet(finchem_lims', bulk_table[i].key).mu[el]
                              = bulk_table[i].mu[el]]_vars

\* a facet has been merged under a key the table already had
C7_Witness ==
    /\ pc \in {"merge_facets", "sub_loop", "done"}
    /\ Len(bulk_table) > 0
    /\ \E i \in 1..Len(finchem_lims) : DOMAIN finchem_lims[i].smu # {}

\* C8: with no substitutional element the dilute merge returns exactly the
\* bulk-only table.
C8_ZeroSubsIsIdentity ==
    (pc = "done" /\ ~full_sub_approach /\ sub_species = <<>>) =>
        result = bulk_table

\* C11: every key of every returned table (dilute, escalated, or full joint mode) is
\* canonical: its phase names, separated by '-', are in lexicographic order.
C11_ReturnedKeysCanonical ==
    pc = "done" =>
        \A i \in 1..Len(result) : IsSortedNames(StrSplit(result[i].key))

\* C12: once gathered, the bulk-derived entry list is changed by no step of the
\* call other than the classification, which appends the target under STABLE_NEW.
C12_OnlyClassificationAppends ==
    [][(pc # "start" /\ bulk_derived' # bulk_derived) =>
          /\ pc = "classify"
          /\ status' = "STABLE_NEW"
          /\ bulk_derived' = Append(bulk_derived, bulk_ce)]_vars

\* C18: every facet solve of the analysis (bulk-only, per substitutional element,
\* escalated joint) builds its hull from entries that include the target entry,
\* whatever the stability status, and asks for the facets at the target's reduced
\* composition.
C18_EverySolveHoldsTarget ==
    /\ pc \in {"init_merge", "sub_loop", "merge_facets", "done"} => Len(solve_log) >= 1
    /\ (pc = "done" /\ overdependent_chempot) => Len(solve_log) = Len(sub_species) + 2
    /\ \A i \in 1..Len(solve_log) :
          /\ bulk_ce \in SeqToSet(solve_log[i].hull)
          /\ solve_log[i].at = bulk_ce.comp

\* an unstable target that is in no database answer went through the bulk-only
\* solve, a per-element solve and the escalated joint solve
C18_Witness ==
    /\ pc = "done"
    /\ overdependent_chempot
    /\ status = "UNSTABLE_NEW"
    /\ Len(sub_species) >= 1
    /\ Len(solve_log) >= 3
    /\ bulk_ce \notin SeqToSet(solve_log[1].entries)

\* the subnom of every facet of one augmented table that was accepted under key,
\* in the order of the table
RECURSIVE SubLabelsIn(_, _, _)
SubLabelsIn(table, sub_el, key) ==
    IF Len(table) = 0 THEN <<>>
    ELSE LET part == diff_bulk_sub_phases(StrSplit(Head(table).key), SymChars(sub_el))
             here == IF Len(part.blk) + 1 = Len(bulk_species_symbol) /\ part.blknom = key
                     THEN <<part.subnom>> ELSE <<>>
         IN  here \o SubLabelsIn(Tail(table), sub_el, key)

\* the same over the augmented solves of the first k substitutional elements
RECURSIVE SubLabelsUpTo(_, _)
SubLabelsUpTo(k, key) ==
    IF k = 0 THEN <<>>
    ELSE SubLabelsUpTo(k - 1, key)
            \o SubLabelsIn(solve_log[k + 1].table, sub_species[k], key)

MergeOver == ~full_sub_approach /\ pc = "done"

\* C17: after the dilute merge a record has a name-append tag iff a facet was
\* accepted under its key, and the tag is the subLabels of the facets accepted under
\* that key, in processing order, joined with '-'.
C17_TagIsAcceptedSubLabels ==
    MergeOver =>
        /\ \A i \in 1..Len(finchem_lims) :
              LET labels == SubLabelsUpTo(Len(sub_species), finchem_lims[i].key)
              IN  /\ finchem_lims[i].tagged <=> Len(labels) > 0
                  /\ finchem_lims[i].tagged => finchem_lims[i].tag = StrJoin(labels)
                  /\ ~finchem_lims[i].tagged => finchem_lims[i].tag = <<>>
        /\ \A k \in 1..Len(sub_species) : \A j \in 1..Len(solve_log[k + 1].table) :
              PlusOne(solve_log[k + 1].table[j].key, sub_species[k]) =>
                  TableHas(finchem_lims,
                           diff_bulk_sub_phases(StrSplit(solve_log[k + 1].table[j].key),
                                                SymChars(sub_species[k])).blknom)

\* a merge has ended with a record that took two accepted facets and a record that
\* took none
C17_Witness ==
    /\ MergeOver
    /\ \E i \in 1..Len(finchem_lims) :
          /\ finchem_lims[i].tagged
          /\ Len(SubLabelsUpTo(Len(sub_species), finchem_lims[i].key)) >= 2
    /\ \E i \in 1..Len(finchem_lims) : ~finchem_lims[i].tagged

\* every entry a hull of this call was built from
HullPhases == UNION {SeqToSet(solve_log[i].hull) : i \in 1..Len(solve_log)}

\* the energies of the entries called name
EnergiesOf(name) == {e.energy : e \in {x \in HullPhases : x.name = name}}

\* the value a record holds for an element: the Element-keyed item, else the str-keyed one
HasMu(rec, el) == el \in DOMAIN rec.mu \/ el \in DOMAIN rec.smu
MuOf(rec, el) == IF el \in DOMAIN rec.mu THEN rec.mu[el] ELSE rec.smu[el]

Term(rec, comp, el) == IF comp[el] = 0 THEN 0 ELSE comp[el] * MuOf(rec, el)

\* the record reproduces the energy of the phase called name: the lowest-energy
\* entry of that name, the one a hull keeps
Reproduces(rec, name) ==
    LET comp == NameComp(name)
    IN  /\ \A el \in Elements : comp[el] > 0 => HasMu(rec, el)
        /\ EnergiesOf(name) # {}
        /\ \A e \in EnergiesOf(name) :
              Term(rec, comp, "Ca") + Term(rec, comp, "O")
                 + Term(rec, comp, "C") + Term(rec, comp, "S") <= e
        /\ \E e \in EnergiesOf(name) :
              Term(rec, comp, "Ca") + Term(rec, comp, "O")
                 + Term(rec, comp, "C") + Term(rec, comp, "S") = e

\* the phases a key names (the key '' names none)
PhasesNamed(key) == SelectSeq(StrSplit(key), LAMBDA n : Len(n) > 0)

TableReproduces(tbl) ==
    \A i \in 1..Len(tbl) :
        \A n \in 1..Len(PhasesNamed(tbl[i].key)) :
            Reproduces(tbl[i], PhasesNamed(tbl[i].key)[n])

\* C15: for every record of a returned table, and of the merged dilute table, and
\* every phase named in its key, the sum of n(e) * mu(e) over the phase's elements
\* is the phase's energy.
C15_VectorsReproduceEnergies ==
    /\ pc = "done" => TableReproduces(result)
    /\ MergeOver => TableReproduces(finchem_lims)

\* a merged table whose record combines the vector of one facet with mu(s) of another
C15_Witness ==
    /\ MergeOver
    /\ Len(result) > 0
    /\ \E i \in 1..Len(finchem_lims) :
          /\ DOMAIN finchem_lims[i].smu # {}
          /\ Len(finchem_lims[i].key) > 0

\* C13: an operation that needs the target entry and is invoked without one (no
\* bulk entry and, for the remote analysis, no mpid) ends in a raised error and
\* returns no table: the facet solve, the remote analysis and the local analysis.
C13_MissingTargetRaises ==
    /\ (bulk_ce = NoEntry /\ pc \in {"pd_done", "pd_error"}) => pc = "pd_error"
    /\ (bulk_ce = NoEntry /\ mpid = "None" /\ pc \notin {"start", "user_no_pdfile"}) =>
          /\ pc \in {"error", "pd_error"}
          /\ result = NoResult

\* C14: when the retrieval of entries comes back empty for a chemical system the
\* analysis needs, get_mp_entries raises, so the analysis never gets past the
\* gathering: no phase diagram is built and no facet is solved.
C14_EmptyRetrievalRaisesInGather ==
    (db_empty /\ pc \notin {"start", "pd_error", "user_no_pdfile", "user_no_bulk",
                            "user_ready"}) =>
        /\ pc = "error"
        /\ solve_log = <<>>

\* C16: a second analysis on the same analyzer with the same argument and the same
\* database answers uses the same target entry, reduced composition and entry
\* collections as the first and returns an equal table.
C16_SecondCallEqualsFirst ==
    (calls = 2 /\ pc = "done") =>
        /\ result = first_call[1].result
        /\ bulk_ce = first_call[1].bulk_ce
        /\ redcomp = first_call[1].redcomp
        /\ subs_set = first_call[1].subs_set
        /\ solve_log = first_call[1].solve_log
        /\ status = first_call[1].status
        /\ decomp_en = first_call[1].decomp_en

\* the second call has returned after a first call that appended the target to the
\* bulk-derived list and then appended the substitutional entries in an escalation
C16_Witness ==
    /\ calls = 2
    /\ pc = "done"
    /\ status = "STABLE_NEW"
    /\ overdependent_chempot
    /\ Len(sub_species) >= 1
    /\ Len(result) > 0

=============================================================================
